---------------------------- MODULE Spec2Model ----------------------------
(***************************************************************************)
(* A model of OauthService (server/ee/services/oauth/oauth.service.ts):    *)
(* the SSO sign-in orchestration of a multi-tenant workspace platform.     *)
(*                                                                         *)
(* Strings are sequences of one-character strings.  A JavaScript value     *)
(* that is undefined, null or '' is the empty sequence: the code only ever *)
(* tests such values for truthiness.                                       *)
(***************************************************************************)
EXTENDS Integers, Sequences, FiniteSets, TLC

VARIABLES
  store,      \* the committed rows: [users, organizations, organizationUsers]
  pc,         \* per call slot: "idle", "eligible", "provisioned", "done", "failed"
  request,    \* per call slot: the request of the call in progress
  ctx,        \* per call slot: what signIn holds after its eligibility checks
  pre,        \* per call slot: the committed rows when the call started
  tx,         \* per call slot: the writes of the open transaction
  out,        \* per call slot: the locals userDetails and organizationDetails,
              \* the error thrown and the payload returned
  calls,      \* the number of signIn calls started
  dEmail,     \* #isValidDomain: the email argument
  dList,      \* #isValidDomain: the restrictedDomain argument
  dResult     \* #isValidDomain: "none" before the call, then the value returned

domVars == <<dEmail, dList, dResult>>
signInVars == <<store, pc, request, ctx, pre, tx, out, calls>>
vars == <<store, pc, request, ctx, pre, tx, out, calls, dEmail, dList, dResult>>

-----------------------------------------------------------------------------
(* Bounds of the model *)

MaxEmailLen == 3
MaxListLen == 3
MaxCalls == 2

-----------------------------------------------------------------------------
(* JavaScript string primitives used by #isValidDomain *)

Chars == {"a", "A", "@", ",", " "}

\* the strings of at most n characters
StringsUpTo(n) == UNION {[1..k -> Chars] : k \in 0..n}

\* !v for a string: undefined, null and '' are falsy
Falsy(s) == s = <<>>

\* String.prototype.lastIndexOf, 0-based, -1 when c does not occur
LastIndexOf(s, c) ==
  LET hits == {i \in 1..Len(s) : s[i] = c}
  IN  IF hits = {} THEN -1 ELSE (CHOOSE i \in hits : \A j \in hits : j <= i) - 1

\* String.prototype.substring(start), start 0-based
Substring(s, start) == SubSeq(s, start + 1, Len(s))

\* String.prototype.split(sep): the pieces between the separators, in order
RECURSIVE Split(_, _)
Split(s, sep) ==
  LET hits == {i \in 1..Len(s) : s[i] = sep}
  IN  IF hits = {} THEN <<s>>
      ELSE LET i == CHOOSE k \in hits : \A j \in hits : k <= j
           IN  <<SubSeq(s, 1, i - 1)>> \o Split(SubSeq(s, i + 1, Len(s)), sep)

\* String.prototype.trim: white space removed at both ends
RECURSIVE TrimLeft(_)
TrimLeft(s) == IF s # <<>> /\ Head(s) = " " THEN TrimLeft(Tail(s)) ELSE s

RECURSIVE TrimRight(_)
TrimRight(s) ==
  IF s # <<>> /\ s[Len(s)] = " " THEN TrimRight(SubSeq(s, 1, Len(s) - 1)) ELSE s

Trim(s) == TrimRight(TrimLeft(s))

\* .map((e) => e && e.trim()).filter((e) => !!e), as the set .includes reads
AllowedDomains(restrictedDomain) ==
  LET parts   == Split(restrictedDomain, ",")
      trimmed == [i \in 1..Len(parts) |-> IF Falsy(parts[i]) THEN parts[i] ELSE Trim(parts[i])]
  IN  {trimmed[i] : i \in {j \in 1..Len(trimmed) : ~Falsy(trimmed[j])}}

\* a mutant of IsValidDomain: the allow-list entries are not trimmed
IsValidDomainNoTrim(email, restrictedDomain) ==
  IF Falsy(email) THEN FALSE
  ELSE LET domain == Substring(email, LastIndexOf(email, "@") + 1)
       IN  IF Falsy(restrictedDomain) THEN TRUE
           ELSE IF Falsy(domain) THEN FALSE
           ELSE LET parts == Split(restrictedDomain, ",")
                IN  domain \in {parts[i] : i \in {j \in 1..Len(parts) : ~Falsy(parts[j])}}

\* OauthService.#isValidDomain
IsValidDomain(email, restrictedDomain) ==
  IF Falsy(email) THEN FALSE
  ELSE LET domain == Substring(email, LastIndexOf(email, "@") + 1)
       IN  IF Falsy(restrictedDomain) THEN TRUE
           ELSE IF Falsy(domain) THEN FALSE
           ELSE IF ~(domain \in AllowedDomains(restrictedDomain)) THEN FALSE
           ELSE TRUE

-----------------------------------------------------------------------------
(* The store: User, Organization and OrganizationUser rows.  Ids are       *)
(* <<kind, n>> pairs, so that, like the UUIDs of the schema, a user id, an *)
(* organization id and a membership id are never equal.                    *)

NoId == <<"", 0>>
UserId(n) == <<"user", n>>
OrgId(n) == <<"organization", n>>
OuId(n) == <<"organization_user", n>>
ConfigId(n) == <<"sso_config", n>>

\* the value of a lookup that finds nothing (undefined / null)
NoUser == [id |-> NoId, email |-> <<>>, status |-> "", invitationToken |-> FALSE,
           defaultOrganizationId |-> NoId, userType |-> "", groups |-> {}]
NoOrg == [id |-> NoId, name |-> "", enableSignUp |-> FALSE, domain |-> <<>>,
          ssoConfigs |-> {}, ssoLogin |-> FALSE]
NoOu == [id |-> NoId, userId |-> NoId, organizationId |-> NoId, status |-> ""]
NoConfig == [id |-> NoId, sso |-> "", enabled |-> FALSE]

\* a transaction that has written nothing
EmptyTx == [insUsers |-> {}, insOrgs |-> {}, insOus |-> {}, clearedTokens |-> {},
            activated |-> {}]

\* the rows a transaction sees: the committed rows and its own writes
View(db, t) ==
  [users |-> {IF u.id \in t.clearedTokens THEN [u EXCEPT !.invitationToken = FALSE] ELSE u :
                u \in db.users \cup t.insUsers},
   organizations |-> db.organizations \cup t.insOrgs,
   organizationUsers |-> {IF m.id \in t.activated THEN [m EXCEPT !.status = "active"] ELSE m :
                            m \in db.organizationUsers \cup t.insOus}]

\* helpers/utils.helper isSuperAdmin(user)
IsSuperAdmin(user) == user # NoUser /\ user.userType = "instance"

\* the smallest n >= 1 for which id(n) is not among the ids in use
FreshIn(used, kind) ==
  LET ns == {id[2] : id \in {i \in used : i[1] = kind}}
  IN  CHOOSE n \in 1..(Cardinality(ns) + 1) : n \notin ns /\ \A k \in 1..(n - 1) : k \in ns

\* UsersService.findByEmail(email)
FindByEmail(db, email) ==
  IF \E u \in db.users : u.email = email
  THEN CHOOSE u \in db.users : u.email = email
  ELSE NoUser

\* the membership UsersService.findByEmail(email, organizationId, statuses) joins
\* to the user it returns: user.organizationUsers[0]
FindMembership(db, email, organizationId, statuses) ==
  LET user == FindByEmail(db, email)
      ms   == {m \in db.organizationUsers :
                 /\ m.userId = user.id
                 /\ m.organizationId = organizationId
                 /\ m.status \in statuses}
  IN  IF user = NoUser \/ ms = {} THEN NoOu ELSE CHOOSE m \in ms : TRUE

\* UsersService.getCount()
GetCount(db) == Cardinality(db.users)

-----------------------------------------------------------------------------
(* Writes.  The body of dbTransactionWrap runs on s = [db, tx, reserved,   *)
(* err, ret]: db the committed rows, tx the transaction's own writes,      *)
(* reserved the ids other open transactions hold, err the exception thrown *)
(* ("" for none), ret the value the last call returned.  A write given the *)
(* transaction's manager goes to tx; a write given none is committed at    *)
(* once.  The store enforces a unique email per user and a unique          *)
(* (user, organization) per membership.                                    *)

NoError == [kind |-> "", message |-> ""]
Error(kind, message) == [kind |-> kind, message |-> message]

IdsOfTx(t) ==
  {u.id : u \in t.insUsers} \cup {o.id : o \in t.insOrgs} \cup {m.id : m \in t.insOus}

IdsInUse(s) ==
  {u.id : u \in s.db.users} \cup {o.id : o \in s.db.organizations}
    \cup {m.id : m \in s.db.organizationUsers} \cup IdsOfTx(s.tx) \cup s.reserved

\* what a statement run with or without the manager reads
Visible(s, manager) == IF manager THEN View(s.db, s.tx) ELSE s.db

\* the uniqueness constraint on users.email
EmailTaken(rows, email) == \E u \in rows : u.email = email

\* the uniqueness constraint on organization_users (user_id, organization_id)
PairTaken(rows, userId, organizationId) ==
  \E m \in rows : m.userId = userId /\ m.organizationId = organizationId

InsertUser(s, row, manager) ==
  IF EmailTaken(Visible(s, manager).users, row.email)
  THEN [s EXCEPT !.err = Error("QueryFailed", "duplicate email")]
  ELSE IF manager THEN [s EXCEPT !.tx.insUsers = @ \cup {row}, !.ret = row]
  ELSE [s EXCEPT !.db.users = @ \cup {row}, !.ret = row]

InsertOrganizationUser(s, row, manager) ==
  IF PairTaken(Visible(s, manager).organizationUsers, row.userId, row.organizationId)
  THEN [s EXCEPT !.err = Error("QueryFailed", "duplicate membership")]
  ELSE IF manager THEN [s EXCEPT !.tx.insOus = @ \cup {row}, !.ret = row]
  ELSE [s EXCEPT !.db.organizationUsers = @ \cup {row}, !.ret = row]

InsertOrganization(s, row, manager) ==
  IF manager THEN [s EXCEPT !.tx.insOrgs = @ \cup {row}, !.ret = row]
  ELSE [s EXCEPT !.db.organizations = @ \cup {row}, !.ret = row]

\* OrganizationUsersService.activate(id, manager): UPDATE ... WHERE id = :id
OrganizationUsersActivate(s, id, manager) ==
  IF ~(\E m \in Visible(s, manager).organizationUsers : m.id = id) THEN s
  ELSE IF manager THEN [s EXCEPT !.tx.activated = @ \cup {id}]
  ELSE [s EXCEPT !.db.organizationUsers =
                    {IF m.id = id THEN [m EXCEPT !.status = "active"] ELSE m : m \in @}]

\* UsersService.updateUser(id, { invitationToken: null }, manager)
UsersClearInvitationToken(s, id, manager) ==
  IF ~(\E u \in Visible(s, manager).users : u.id = id) THEN s
  ELSE IF manager THEN [s EXCEPT !.tx.clearedTokens = @ \cup {id}]
  ELSE [s EXCEPT !.db.users =
                    {IF u.id = id THEN [u EXCEPT !.invitationToken = FALSE] ELSE u : u \in @}]

\* the status a membership is created with: inactive, that is, invited
CreatedMembershipStatus == "invited"

\* OrganizationUsersService.create(user, organization, false, manager)
OrganizationUsersCreate(s, user, organization, manager) ==
  InsertOrganizationUser(s,
    [id |-> OuId(FreshIn(IdsInUse(s), "organization_user")), userId |-> user.id,
     organizationId |-> organization.id, status |-> CreatedMembershipStatus],
    manager)

\* UsersService.create(params, organizationId, groups, ..., manager)
UsersCreate(s, email, organizationId, groups, manager) ==
  InsertUser(s,
    [id |-> UserId(FreshIn(IdsInUse(s), "user")), email |-> email, status |-> "active",
     invitationToken |-> FALSE, defaultOrganizationId |-> organizationId,
     userType |-> "workspace", groups |-> groups],
    manager)

\* the next statement runs on the state a statement leaves, unless it threw
Then(s, Statement(_)) == IF s.err # NoError THEN s ELSE Statement(s)

\* the row of a new workspace
NewOrganization(s, name) ==
  [id |-> OrgId(FreshIn(IdsInUse(s), "organization")), name |-> name,
   enableSignUp |-> FALSE, domain |-> <<>>, ssoConfigs |-> {}, ssoLogin |-> TRUE]

CreateOrganizationRow(s, row, user, manager) ==
  Then(InsertOrganization(s, row, manager), LAMBDA s1 :
    IF user = NoUser THEN s1
    ELSE Then(OrganizationUsersCreate(s1, user, row, manager), LAMBDA s2 :
           [s2 EXCEPT !.ret = row]))

\* OrganizationsService.create(name, user, manager): the workspace and, given a
\* user, that user's membership of it
OrganizationsCreate(s, name, user, manager) ==
  CreateOrganizationRow(s, NewOrganization(s, name), user, manager)

FindOrCreateFor(s, user, email, organizationId, manager) ==
  IF user # NoUser /\ PairTaken(Visible(s, manager).organizationUsers, user.id, organizationId)
  THEN [s EXCEPT !.ret = [user |-> user, newUserCreated |-> FALSE]]
  ELSE IF user # NoUser
  THEN [s EXCEPT !.ret = [user |-> user, newUserCreated |-> TRUE]]
  ELSE Then(UsersCreate(s, email, organizationId, {"all_users"}, manager), LAMBDA s1 :
         [s1 EXCEPT !.ret = [user |-> s1.ret, newUserCreated |-> TRUE]])

\* UsersService.findOrCreateByEmail(params, organizationId, manager):
\* ret = [user, newUserCreated], newUserCreated when the user was not yet in
\* the organization
UsersFindOrCreateByEmail(s, email, organizationId, manager) ==
  FindOrCreateFor(s, FindByEmail(Visible(s, manager), email), email, organizationId, manager)

\* OrganizationsService.findOrganizationWithLoginSupport(user, 'sso'): the
\* organizations with SSO login where the user is an active member, by id
LoginSupportIds(db, user) ==
  {o.id : o \in {x \in db.organizations :
                   /\ x.ssoLogin
                   /\ \E m \in db.organizationUsers :
                        m.userId = user.id /\ m.organizationId = x.id /\ m.status = "active"}}

RECURSIVE SortedIds(_)
SortedIds(ids) ==
  IF ids = {} THEN <<>>
  ELSE LET least == CHOOSE i \in ids : \A j \in ids : i[2] <= j[2]
       IN  <<least>> \o SortedIds(ids \ {least})

OrgById(db, id) ==
  IF \E o \in db.organizations : o.id = id
  THEN CHOOSE o \in db.organizations : o.id = id
  ELSE NoOrg

FindOrganizationWithLoginSupport(db, user) ==
  LET ids == SortedIds(LoginSupportIds(db, user))
  IN  [i \in 1..Len(ids) |-> OrgById(db, ids[i])]

\* OrganizationsService.getConfigs(configId): the SSO config of that id, with
\* its organization
GetConfigs(db, configId) ==
  IF \E o \in db.organizations : \E c \in o.ssoConfigs : c.id = configId
  THEN [organization |-> CHOOSE o \in db.organizations : \E c \in o.ssoConfigs : c.id = configId,
        config |-> CHOOSE c \in UNION {o.ssoConfigs : o \in db.organizations} : c.id = configId]
  ELSE [organization |-> NoOrg, config |-> NoConfig]

\* OrganizationsService.fetchOrganizationDetails(organizationId, [true], false, true)
FetchOrganizationDetails(db, organizationId) == OrgById(db, organizationId)

-----------------------------------------------------------------------------
(* signIn, lines 178-257: tenant resolution, identity exchange and the     *)
(* eligibility checks.  A request req carries the arguments of signIn, the *)
(* configuration the call reads and what the identity provider answers:    *)
(*   configId, ssoType, organizationId   the arguments ('' when absent)    *)
(*   isSingleOrganization   DISABLE_MULTI_WORKSPACE === 'true'             *)
(*   clientId               the instance has a client id for ssoType       *)
(*   disableSignups         SSO_DISABLE_SIGNUPS === 'true'                 *)
(*   acceptedDomains        SSO_ACCEPTED_DOMAINS                           *)
(*   allowPersonalWorkspace the ALLOW_PERSONAL_WORKSPACE setting is 'true' *)
(*   oidc                   License.Instance.oidc                          *)
(*   identity               [accepted, userSSOId, email, firstName]        *)

Providers == {"google", "git", "openid"}

\* OauthService.#getSSOConfigs: undefined for an ssoType it does not know, and
\* then the spread adds no enabled flag
GetSSOConfigs(req) ==
  [id |-> NoId, sso |-> req.ssoType,
   enabled |-> IF req.ssoType \in Providers THEN req.clientId ELSE FALSE]

\* OauthService.#getInstanceSSOConfigs
GetInstanceSSOConfigs(req) ==
  [organization |-> [NoOrg EXCEPT !.enableSignUp = ~req.disableSignups,
                                  !.domain = req.acceptedDomains],
   config |-> GetSSOConfigs(req)]

\* the organization and the config found, or not, for an entry mode
Resolved(mode, organization, config, hasConfigs) ==
  [mode |-> mode, organization |-> organization, hasOrganization |-> organization # NoOrg,
   config |-> config, hasConfigs |-> hasConfigs]

\* signIn, lines 185-186: SSO under an organization
ExplicitConfig(found) ==
  Resolved("explicit", found.organization, found.config, found.config # NoConfig)

\* signIn, lines 189-190: instance SSO login from the organization's login page
KnownOrganization(organization, ssoType) ==
  IF \E c \in organization.ssoConfigs : c.sso = ssoType
  THEN Resolved("known", organization,
                CHOOSE c \in organization.ssoConfigs : c.sso = ssoType, TRUE)
  ELSE Resolved("known", organization, NoConfig, FALSE)

\* signIn, lines 193-194: instance SSO login from the common login page; the
\* organization is an object without an id
CommonPage(inst) ==
  [mode |-> "common", organization |-> inst.organization, hasOrganization |-> TRUE,
   config |-> inst.config, hasConfigs |-> TRUE]

Unresolved ==
  [mode |-> "none", organization |-> NoOrg, hasOrganization |-> FALSE,
   config |-> NoConfig, hasConfigs |-> FALSE]

\* a mutant of ResolveTenant: the organization id is looked at before the
\* config id
ResolveTenantOrgFirst(db, req) ==
  IF ~req.isSingleOrganization /\ req.ssoType # "" /\ req.organizationId # NoId
  THEN KnownOrganization(FetchOrganizationDetails(db, req.organizationId), req.ssoType)
  ELSE IF req.configId # NoId
  THEN ExplicitConfig(GetConfigs(db, req.configId))
  ELSE IF ~req.isSingleOrganization /\ req.ssoType # ""
  THEN CommonPage(GetInstanceSSOConfigs(req))
  ELSE Unresolved

\* signIn, lines 183-197: which of the three entry modes the request takes
ResolveTenant(db, req) ==
  IF req.configId # NoId
  THEN ExplicitConfig(GetConfigs(db, req.configId))
  ELSE IF ~req.isSingleOrganization /\ req.ssoType # "" /\ req.organizationId # NoId
  THEN KnownOrganization(FetchOrganizationDetails(db, req.organizationId), req.ssoType)
  ELSE IF ~req.isSingleOrganization /\ req.ssoType # ""
  THEN CommonPage(GetInstanceSSOConfigs(req))
  ELSE Unresolved

NoUserResponse == [userSSOId |-> FALSE, email |-> <<>>, firstName |-> <<>>]

\* what the provider's signIn gives for the token: a rejection or the identity
ProviderAnswer(req) ==
  IF req.identity.accepted
  THEN [error |-> NoError, defined |-> TRUE,
        userResponse |-> [userSSOId |-> req.identity.userSSOId,
                          email |-> req.identity.email,
                          firstName |-> req.identity.firstName]]
  ELSE [error |-> Error("Unauthorized", "provider rejected the token"), defined |-> FALSE,
        userResponse |-> NoUserResponse]

\* signIn, lines 207-230: the switch over the provider.  defined is FALSE when
\* no branch assigned userResponse.
ExchangeIdentity(req, sso) ==
  CASE sso \in {"google", "git"} -> ProviderAnswer(req)
    [] sso = "openid" ->
         IF ~req.oidc
         THEN [error |-> Error("Unauthorized", "OIDC login disabled"), defined |-> FALSE,
               userResponse |-> NoUserResponse]
         ELSE ProviderAnswer(req)
    [] OTHER -> [error |-> NoError, defined |-> FALSE, userResponse |-> NoUserResponse]

\* signIn, line 232: userResponse.userSSOId && userResponse.email
IdentityComplete(userResponse) ==
  userResponse.userSSOId /\ ~Falsy(userResponse.email)

\* a mutant of IsArchived: a super admin is let through
IsArchivedUnlessSuperAdmin(userDetails) ==
  userDetails.status = "archived" /\ ~IsSuperAdmin(userDetails)

\* signIn, line 238: userDetails?.status === 'archived'
IsArchived(userDetails) == userDetails.status = "archived"

\* a mutant of DomainRejected: a super admin is checked like everyone else
DomainRejectedNoBypass(userDetails, email, domain) == ~IsValidDomain(email, domain)

\* signIn, line 242: !isSuperAdmin(userDetails) && !this.#isValidDomain(email, domain)
DomainRejected(userDetails, email, domain) ==
  ~IsSuperAdmin(userDetails) /\ ~IsValidDomain(email, domain)

\* signIn, lines 246-249: userResponse.email?.split('@')?.[0] for a missing firstName
FirstName(userResponse) ==
  IF Falsy(userResponse.firstName) THEN Split(userResponse.email, "@")[1]
  ELSE userResponse.firstName

\* a mutant of AllowPersonalWorkspace: no exemption for the first user
AllowPersonalWorkspaceNoBootstrap(db, req, userDetails) ==
  IsSuperAdmin(userDetails) \/ req.allowPersonalWorkspace

\* signIn, lines 251-254
AllowPersonalWorkspace(db, req, userDetails) ==
  IsSuperAdmin(userDetails) \/ req.allowPersonalWorkspace \/ GetCount(db) = 0

\* signIn, line 257: !!(!configId && ssoType)
IsInstanceSSOLogin(req) == req.configId = NoId /\ req.ssoType # ""

\* what signIn holds when it reaches the transaction, or the error it threw and
\* the stage that threw it
NoContext ==
  [error |-> NoError, stage |-> "", mode |-> "none", organization |-> NoOrg, sso |-> "",
   enabled |-> FALSE, email |-> <<>>, firstName |-> <<>>, userDetails |-> NoUser,
   allowPersonalWorkspace |-> FALSE, isInstanceSSOLogin |-> FALSE]

Failed(c, stage, kind, message) ==
  [c EXCEPT !.error = Error(kind, message), !.stage = stage]

\* a mutant of CheckUser: the domain check comes before the archived check
CheckUserDomainFirst(db, req, c, userResponse, userDetails) ==
  IF DomainRejected(userDetails, userResponse.email, c.organization.domain)
  THEN Failed([c EXCEPT !.email = userResponse.email, !.userDetails = userDetails],
              "domain", "Unauthorized", "Domain verification failed")
  ELSE IF IsArchived(userDetails)
  THEN Failed([c EXCEPT !.email = userResponse.email, !.userDetails = userDetails],
              "archived", "NotAcceptable", "User has been removed")
  ELSE [c EXCEPT !.email = userResponse.email,
                 !.userDetails = userDetails,
                 !.stage = "provision",
                 !.firstName = FirstName(userResponse),
                 !.allowPersonalWorkspace = AllowPersonalWorkspace(db, req, userDetails),
                 !.isInstanceSSOLogin = IsInstanceSSOLogin(req)]

\* signIn, lines 236-257: the checks on the user of the email
CheckUser(db, req, c, userResponse, userDetails) ==
  IF IsArchived(userDetails)
  THEN Failed([c EXCEPT !.email = userResponse.email, !.userDetails = userDetails],
              "archived", "NotAcceptable", "User has been removed")
  ELSE IF DomainRejected(userDetails, userResponse.email, c.organization.domain)
  THEN Failed([c EXCEPT !.email = userResponse.email, !.userDetails = userDetails],
              "domain", "Unauthorized", "Domain verification failed")
  ELSE [c EXCEPT !.email = userResponse.email,
                 !.userDetails = userDetails,
                 !.stage = "provision",
                 !.firstName = FirstName(userResponse),
                 !.allowPersonalWorkspace = AllowPersonalWorkspace(db, req, userDetails),
                 !.isInstanceSSOLogin = IsInstanceSSOLogin(req)]

\* signIn, lines 232-236: the check of the identity, then the lookup of the user
CheckIdentity(db, req, c, got) ==
  IF got.error # NoError THEN [c EXCEPT !.error = got.error, !.stage = "exchange"]
  ELSE IF ~got.defined
  THEN Failed(c, "identity", "TypeError", "userResponse is undefined")
  ELSE IF ~IdentityComplete(got.userResponse)
  THEN Failed(c, "identity", "Unauthorized", "Invalid credentials")
  ELSE CheckUser(db, req, c, got.userResponse, FindByEmail(db, got.userResponse.email))

\* signIn, lines 199-230: the check of the tenant, then the identity exchange
CheckTenant(db, req, tenant) ==
  IF tenant.mode = "none" \/ ~tenant.hasOrganization \/ ~tenant.hasConfigs
  THEN Failed([NoContext EXCEPT !.mode = tenant.mode], "tenant", "Unauthorized", "")
  ELSE CheckIdentity(db, req,
                     [NoContext EXCEPT !.mode = tenant.mode,
                                       !.organization = tenant.organization,
                                       !.sso = tenant.config.sso,
                                       !.enabled = tenant.config.enabled],
                     ExchangeIdentity(req, tenant.config.sso))

\* signIn, lines 178-257
Eligibility(db, req) == CheckTenant(db, req, ResolveTenant(db, req))

-----------------------------------------------------------------------------
(* signIn, lines 259-337: the body of dbTransactionWrap.  Every operator   *)
(* takes the body's state s and gives the state after it; a thrown         *)
(* exception is s.err, and nothing runs after one.                         *)

Throw(s, kind, message) == [s EXCEPT !.err = Error(kind, message)]

\* lines 80-83 and 97-100: an invited membership is activated, the user returned
ActivateAndReturn(s, user, organizationUser, manager) ==
  IF organizationUser.status # "active"
  THEN [OrganizationUsersActivate(s, organizationUser.id, manager) EXCEPT !.ret = user]
  ELSE [s EXCEPT !.ret = user]

FindAndActivate(s, user, organizationUser, manager) ==
  IF user = NoUser \/ organizationUser = NoOu
  THEN Throw(s, "Unauthorized", "User does not exist in the workspace")
  ELSE ActivateAndReturn(s, user, organizationUser, manager)

\* a mutant of FindAndActivateUser: the membership is activated without the
\* transaction's manager
FindAndActivateUserNoManager(s, email, organizationId) ==
  FindAndActivate(s, FindByEmail(s.db, email),
                  FindMembership(s.db, email, organizationId, {"active", "invited"}), FALSE)

\* OauthService.#findAndActivateUser
FindAndActivateUser(s, email, organizationId) ==
  FindAndActivate(s, FindByEmail(s.db, email),
                  FindMembership(s.db, email, organizationId, {"active", "invited"}), TRUE)

\* a mutant of CreateInWorkspace: the test of newUserCreated is inverted
CreateInWorkspaceInverted(s, email, organization) ==
  Then(UsersFindOrCreateByEmail(s, email, organization.id, TRUE), LAMBDA s1 :
    IF ~s1.ret.newUserCreated
    THEN Then(OrganizationUsersCreate(s1, s1.ret.user, organization, TRUE), LAMBDA s2 :
           [s2 EXCEPT !.ret = s1.ret.user])
    ELSE [s1 EXCEPT !.ret = s1.ret.user])

\* lines 69-78: the user is not in the workspace
CreateInWorkspace(s, email, organization) ==
  Then(UsersFindOrCreateByEmail(s, email, organization.id, TRUE), LAMBDA s1 :
    IF s1.ret.newUserCreated
    THEN Then(OrganizationUsersCreate(s1, s1.ret.user, organization, TRUE), LAMBDA s2 :
           [s2 EXCEPT !.ret = s1.ret.user])
    ELSE [s1 EXCEPT !.ret = s1.ret.user])

FindOrCreate(s, email, organization, existingUser, organizationUser) ==
  IF organizationUser = NoOu THEN CreateInWorkspace(s, email, organization)
  ELSE ActivateAndReturn(s, existingUser, organizationUser, TRUE)

\* a mutant of FindOrCreateUser: the user and the membership are created
\* whether or not a membership was found
FindOrCreateUserAlways(s, email, organization) ==
  Then(UsersCreate(s, email, organization.id, {"all_users"}, TRUE), LAMBDA s1 :
    Then(OrganizationUsersCreate(s1, s1.ret, organization, TRUE), LAMBDA s2 :
      [s2 EXCEPT !.ret = s1.ret]))

\* OauthService.#findOrCreateUser
FindOrCreateUser(s, email, organization) ==
  FindOrCreate(s, email, organization, FindByEmail(s.db, email),
               FindMembership(s.db, email, organization.id, {"active", "invited"}))

\* what the transaction leaves in userDetails and organizationDetails
Locals(s, userDetails, organizationDetails) ==
  [s EXCEPT !.ret = [userDetails |-> userDetails,
                     organizationDetails |-> organizationDetails]]

\* a mutant of DirectLogin: the sign-up policy of the organization is not
\* looked at
DirectLoginSignUpAlways(s, c) ==
  Then(FindOrCreateUser(s, c.email, c.organization),
       LAMBDA s1 :
         IF s1.ret = NoUser THEN Throw(s1, "Unauthorized", "Email id is not registered")
         ELSE Locals(s1, s1.ret, c.organization))

\* signIn, lines 326-334: direct login to an organization
DirectLogin(s, c) ==
  Then(IF ~c.organization.enableSignUp
       THEN FindAndActivateUser(s, c.email, c.organization.id)
       ELSE FindOrCreateUser(s, c.email, c.organization),
       LAMBDA s1 :
         IF s1.ret = NoUser THEN Throw(s1, "Unauthorized", "Email id is not registered")
         ELSE Locals(s1, s1.ret, c.organization))

\* signIn, lines 263-286: the first sign-in of a new user on the common page
CreateNewUser(s, c) ==
  Then(OrganizationsCreate(s, "Untitled workspace", NoUser, TRUE), LAMBDA s1 :
    Then(UsersCreate(s1, c.email, s1.ret.id, {"all_users", "admin"}, TRUE), LAMBDA s2 :
      Then(OrganizationUsersCreate(s2, s2.ret, s1.ret, TRUE), LAMBDA s3 :
        Locals(s3, s2.ret, s1.ret))))

\* signIn, lines 289-293: the account setup of an invited user; activate is
\* given the id of the default organization
ActivateInvitation(s, userDetails) ==
  Then(UsersClearInvitationToken(s, userDetails.id, TRUE), LAMBDA s1 :
    OrganizationUsersActivate(s1, userDetails.defaultOrganizationId, TRUE))

\* signIn, lines 301-305: the super admin's organization; anyOrg is the row
\* getSingleOrganization() returns (NoOrg when there is none)
SuperAdminOrganization(own, anyOrg) == IF own # NoOrg THEN own ELSE anyOrg

\* signIn, lines 297-306: the organizations the user may be signed in to
OrganizationList(s, userDetails, anyOrg) ==
  IF ~IsSuperAdmin(userDetails) THEN FindOrganizationWithLoginSupport(s.db, userDetails)
  ELSE <<SuperAdminOrganization(OrgById(View(s.db, s.tx), userDetails.defaultOrganizationId),
                                anyOrg)>>

\* Array.prototype.find over the list: the first organization of that id
FindDefault(organizationList, id) ==
  IF \E i \in 1..Len(organizationList) : organizationList[i].id = id
  THEN organizationList[CHOOSE i \in 1..Len(organizationList) :
                          /\ organizationList[i].id = id
                          /\ \A j \in 1..(i - 1) : organizationList[j].id # id]
  ELSE NoOrg

\* a mutant of PickOrganization: the default organization is not preferred
PickOrganizationFirstCandidate(s, c, userDetails, organizationList, defaultOrgDetails) ==
  IF Len(organizationList) > 0 THEN Locals(s, userDetails, organizationList[1])
  ELSE IF c.allowPersonalWorkspace
  THEN Then(OrganizationsCreate(s, "Untitled workspace", userDetails, TRUE), LAMBDA s1 :
         Locals(s1, userDetails, s1.ret))
  ELSE Throw(s, "Unauthorized", "User not included in any workspace")

\* signIn, lines 308-322
PickOrganization(s, c, userDetails, organizationList, defaultOrgDetails) ==
  IF defaultOrgDetails # NoOrg THEN Locals(s, userDetails, defaultOrgDetails)
  ELSE IF Len(organizationList) > 0 THEN Locals(s, userDetails, organizationList[1])
  ELSE IF c.allowPersonalWorkspace
  THEN Then(OrganizationsCreate(s, "Untitled workspace", userDetails, TRUE), LAMBDA s1 :
         Locals(s1, userDetails, s1.ret))
  ELSE Throw(s, "Unauthorized", "User not included in any workspace")

SelectFrom(s, c, userDetails, organizationList) ==
  IF \E i \in 1..Len(organizationList) : organizationList[i] = NoOrg
  THEN Throw(s, "TypeError", "og is undefined")
  ELSE PickOrganization(s, c, userDetails, organizationList,
                        FindDefault(organizationList, userDetails.defaultOrganizationId))

\* signIn, lines 295-323: the organization of the session of an existing user
SelectOrganization(s, c, userDetails, anyOrg) ==
  SelectFrom(s, c, userDetails, OrganizationList(s, userDetails, anyOrg))

\* signIn, lines 260-323: login from the common page
CommonPageLogin(s, c, anyOrg) ==
  IF c.userDetails = NoUser /\ c.organization.enableSignUp /\ c.allowPersonalWorkspace
  THEN CreateNewUser(s, c)
  ELSE IF c.userDetails = NoUser
  THEN Throw(s, "Unauthorized", "User does not exist in the workspace")
  ELSE Then(IF c.userDetails.invitationToken THEN ActivateInvitation(s, c.userDetails) ELSE s,
            LAMBDA s1 : SelectOrganization(s1, c, c.userDetails, anyOrg))

\* UsersService.validateLicense(manager): licenseOk is what the licence says of
\* the rows the transaction sees
ValidateLicense(s, licenseOk) ==
  IF licenseOk THEN s ELSE Throw(s, "LicenseError", "licence limit reached")

\* the callback given to dbTransactionWrap, lines 259-337
TransactionBody(s, req, c, anyOrg, licenseOk) ==
  Then(IF ~req.isSingleOrganization /\ c.isInstanceSSOLogin /\ req.organizationId = NoId
       THEN CommonPageLogin(s, c, anyOrg)
       ELSE DirectLogin(s, c),
       LAMBDA s1 : ValidateLicense(s1, licenseOk))

-----------------------------------------------------------------------------
(* OauthService.#generateLoginResultPayload, lines 103-129 *)

NoPayload == [id |-> NoId, email |-> <<>>, organizationId |-> NoId, organization |-> "",
              isSSOLogin |-> FALSE, auth_token |-> FALSE]

\* auth_token is TRUE when jwtService.sign was called for the payload
GenerateLoginResultPayload(user, organization, isInstanceSSO) ==
  [id |-> user.id, email |-> user.email, organizationId |-> organization.id,
   organization |-> organization.name, isSSOLogin |-> isInstanceSSO, auth_token |-> TRUE]

NoOut == [error |-> NoError, userDetails |-> NoUser, organizationDetails |-> NoOrg,
          payload |-> NoPayload]

-----------------------------------------------------------------------------
(* The stores a run starts from *)

EmailA == <<"a", "@", "a">>
EmailB == <<"A", "@", "A">>
OnlyDomainA == <<" ", "A">>

Acme(enableSignUp, domain) ==
  [id |-> OrgId(1), name |-> "Acme", enableSignUp |-> enableSignUp, domain |-> domain,
   ssoConfigs |-> {[id |-> ConfigId(1), sso |-> "google", enabled |-> TRUE],
                   [id |-> ConfigId(2), sso |-> "openid", enabled |-> TRUE],
                   [id |-> ConfigId(3), sso |-> "git", enabled |-> FALSE]},
   ssoLogin |-> TRUE]

Beta ==
  [id |-> OrgId(2), name |-> "Beta", enableSignUp |-> TRUE, domain |-> <<>>,
   ssoConfigs |-> {}, ssoLogin |-> TRUE]

UserRow(n, email, status, invitationToken, defaultOrganizationId, userType) ==
  [id |-> UserId(n), email |-> email, status |-> status,
   invitationToken |-> invitationToken, defaultOrganizationId |-> defaultOrganizationId,
   userType |-> userType, groups |-> {"all_users"}]

Member(n, userN, orgN, status) ==
  [id |-> OuId(n), userId |-> UserId(userN), organizationId |-> OrgId(orgN),
   status |-> status]

\* the rows of the user with EmailA, one possibility per element
People ==
  { [users |-> {}, organizationUsers |-> {}],
    [users |-> {UserRow(1, EmailA, "active", FALSE, OrgId(1), "workspace")},
     organizationUsers |-> {Member(1, 1, 1, "active")}],
    [users |-> {UserRow(1, EmailA, "invited", TRUE, OrgId(1), "workspace")},
     organizationUsers |-> {Member(1, 1, 1, "invited")}],
    [users |-> {UserRow(1, EmailA, "archived", FALSE, OrgId(1), "workspace")},
     organizationUsers |-> {Member(1, 1, 1, "active")}],
    [users |-> {UserRow(1, EmailA, "active", FALSE, OrgId(1), "instance")},
     organizationUsers |-> {Member(1, 1, 1, "active")}],
    [users |-> {UserRow(1, EmailA, "active", FALSE, NoId, "instance")},
     organizationUsers |-> {}],
    [users |-> {UserRow(1, EmailA, "active", FALSE, OrgId(2), "workspace")},
     organizationUsers |-> {Member(1, 1, 2, "active")}],
    [users |-> {UserRow(1, EmailA, "active", FALSE, NoId, "workspace")},
     organizationUsers |-> {}],
    [users |-> {UserRow(1, EmailA, "archived", FALSE, OrgId(1), "instance")},
     organizationUsers |-> {Member(1, 1, 1, "active")}],
    [users |-> {UserRow(1, EmailA, "invited", TRUE, OrgId(1), "instance")},
     organizationUsers |-> {Member(1, 1, 1, "invited")}],
    [users |-> {UserRow(1, EmailA, "active", FALSE, OrgId(2), "workspace")},
     organizationUsers |-> {Member(1, 1, 1, "active"), Member(2, 1, 2, "active")}],
    [users |-> {UserRow(1, EmailA, "invited", TRUE, OrgId(1), "workspace")},
     organizationUsers |-> {Member(1, 1, 1, "invited"), Member(2, 1, 2, "active")}],
    [users |-> {UserRow(2, EmailB, "active", FALSE, OrgId(1), "workspace")},
     organizationUsers |-> {Member(3, 2, 1, "active")}] }

Stores ==
  { [users |-> who.users,
     organizations |-> {Acme(enableSignUp, domain), Beta},
     organizationUsers |-> who.organizationUsers] :
      who \in People, enableSignUp \in BOOLEAN, domain \in {<<>>, OnlyDomainA} }

-----------------------------------------------------------------------------
(* The requests *)

Identities ==
  { [accepted |-> TRUE, userSSOId |-> TRUE, email |-> EmailA, firstName |-> <<>>],
    [accepted |-> TRUE, userSSOId |-> TRUE, email |-> EmailB, firstName |-> <<"A">>],
    [accepted |-> TRUE, userSSOId |-> FALSE, email |-> EmailA, firstName |-> <<>>],
    [accepted |-> TRUE, userSSOId |-> TRUE, email |-> <<>>, firstName |-> <<>>],
    [accepted |-> FALSE, userSSOId |-> FALSE, email |-> <<>>, firstName |-> <<>>] }

\* the request of a call slot that has made no call
NoRequest ==
  [configId |-> NoId, ssoType |-> "", organizationId |-> NoId,
   isSingleOrganization |-> FALSE, clientId |-> FALSE, disableSignups |-> FALSE,
   acceptedDomains |-> <<>>, allowPersonalWorkspace |-> FALSE, oidc |-> TRUE,
   identity |-> [accepted |-> FALSE, userSSOId |-> FALSE, email |-> <<>>,
                 firstName |-> <<>>]]

\* the arguments of signIn and the multi-workspace switch
Arguments ==
  {[NoRequest EXCEPT !.configId = configId, !.ssoType = ssoType,
                     !.organizationId = organizationId,
                     !.isSingleOrganization = isSingleOrganization] :
     configId \in {NoId, ConfigId(1)}, ssoType \in {"", "google", "openid", "form"},
     organizationId \in {NoId, OrgId(1), OrgId(9)}, isSingleOrganization \in BOOLEAN}
  \cup {[NoRequest EXCEPT !.configId = configId] : configId \in {ConfigId(3), ConfigId(9)}}

\* the instance-wide settings, for a Google login from the common page
CommonPageSettings ==
  {[NoRequest EXCEPT !.ssoType = "google", !.clientId = clientId,
                     !.disableSignups = disableSignups,
                     !.acceptedDomains = acceptedDomains,
                     !.allowPersonalWorkspace = allowPersonalWorkspace] :
     clientId \in BOOLEAN, disableSignups \in BOOLEAN,
     acceptedDomains \in {<<>>, OnlyDomainA}, allowPersonalWorkspace \in BOOLEAN}

\* an OpenID login without the OIDC licence
Unlicensed ==
  {[NoRequest EXCEPT !.ssoType = "openid", !.organizationId = organizationId,
                     !.oidc = FALSE] : organizationId \in {NoId, OrgId(1)}}

\* one request per behaviour of signIn: a setting is varied where the call
\* reads it
Requests ==
  {[r EXCEPT !.identity = identity] :
     r \in Arguments \cup CommonPageSettings \cup Unlicensed, identity \in Identities}

-----------------------------------------------------------------------------
(* The calls.  signIn is one action up to its transaction, one for the     *)
(* body of the transaction and one for the commit and the payload: other   *)
(* calls may commit in between.                                            *)

Procs == {1, 2}

Init ==
  /\ store \in Stores
  /\ pc = [p \in Procs |-> "idle"]
  /\ request = [p \in Procs |-> NoRequest]
  /\ ctx = [p \in Procs |-> NoContext]
  /\ pre = [p \in Procs |-> store]
  /\ tx = [p \in Procs |-> EmptyTx]
  /\ out = [p \in Procs |-> NoOut]
  /\ calls = 0
  /\ dEmail = <<>>
  /\ dList = <<>>
  /\ dResult = "none"

\* signIn, lines 178-257, for any request of the set
SignInStart(p, requests) ==
  /\ pc[p] = "idle"
  /\ calls < MaxCalls
  /\ \E r \in requests :
       LET c == Eligibility(store, r)
       IN  /\ ctx' = [ctx EXCEPT ![p] = c]
           /\ pc' = [pc EXCEPT ![p] = IF c.error = NoError THEN "eligible" ELSE "failed"]
           /\ out' = [out EXCEPT ![p] = [NoOut EXCEPT !.error = c.error]]
           /\ request' = [request EXCEPT ![p] = r]
  /\ pre' = [pre EXCEPT ![p] = store]
  /\ tx' = [tx EXCEPT ![p] = EmptyTx]
  /\ calls' = calls + 1
  /\ UNCHANGED <<store, dEmail, dList, dResult>>

\* a mutant of ProvisionOutcome: the exception of the transaction is caught
\* and signIn goes on to the payload
ProvisionOutcomeSwallowed(p, s1) ==
  /\ store' = s1.db
  /\ pc' = [pc EXCEPT ![p] = "provisioned"]
  /\ tx' = [tx EXCEPT ![p] = IF s1.err = NoError THEN s1.tx ELSE EmptyTx]
  /\ out' = [out EXCEPT ![p] =
               IF s1.err = NoError
               THEN [NoOut EXCEPT !.userDetails = s1.ret.userDetails,
                                  !.organizationDetails = s1.ret.organizationDetails]
               ELSE [NoOut EXCEPT !.error = s1.err, !.userDetails = ctx[p].userDetails,
                                  !.organizationDetails = ctx[p].organization]]

\* the end of dbTransactionWrap's callback: the transaction stays open for the
\* commit, or it is rolled back and the exception is thrown to the caller
ProvisionOutcome(p, s1) ==
  /\ store' = s1.db
  /\ IF s1.err = NoError
     THEN /\ pc' = [pc EXCEPT ![p] = "provisioned"]
          /\ tx' = [tx EXCEPT ![p] = s1.tx]
          /\ out' = [out EXCEPT ![p] =
                       [NoOut EXCEPT !.userDetails = s1.ret.userDetails,
                                     !.organizationDetails = s1.ret.organizationDetails]]
     ELSE /\ pc' = [pc EXCEPT ![p] = "failed"]
          /\ tx' = [tx EXCEPT ![p] = EmptyTx]
          /\ out' = [out EXCEPT ![p] = [NoOut EXCEPT !.error = s1.err]]

\* the ids the other open transactions have given to their rows
Reserved(p) == UNION {IdsOfTx(tx[q]) : q \in Procs \ {p}}

\* signIn, lines 259-337, up to the commit
Provision(p) ==
  /\ pc[p] = "eligible"
  /\ \E licenseOk \in BOOLEAN :
       \E anyOrg \in IF store.organizations = {} THEN {NoOrg} ELSE store.organizations :
         ProvisionOutcome(p,
           TransactionBody([db |-> store, tx |-> EmptyTx, reserved |-> Reserved(p),
                            err |-> NoError, ret |-> NoUser],
                           request[p], ctx[p], anyOrg, licenseOk))
  /\ UNCHANGED <<request, ctx, pre, calls, dEmail, dList, dResult>>

\* a mutant of Conflicts: the store has no uniqueness constraints
ConflictsUnchecked(db, t) == FALSE

\* the rows of a transaction that the store's uniqueness constraints refuse
Conflicts(db, t) ==
  \/ \E u \in t.insUsers : EmailTaken(db.users, u.email)
  \/ \E m \in t.insOus : PairTaken(db.organizationUsers, m.userId, m.organizationId)

\* signIn, lines 337-339: the commit, then the payload
Commit(p) ==
  /\ pc[p] = "provisioned"
  /\ IF Conflicts(store, tx[p])
     THEN /\ pc' = [pc EXCEPT ![p] = "failed"]
          /\ out' = [out EXCEPT ![p] = [NoOut EXCEPT !.error = Error("QueryFailed", "duplicate key")]]
          /\ store' = store
     ELSE /\ pc' = [pc EXCEPT ![p] = "done"]
          /\ out' = [out EXCEPT ![p].payload =
                       GenerateLoginResultPayload(out[p].userDetails,
                                                  out[p].organizationDetails,
                                                  ctx[p].isInstanceSSOLogin)]
          /\ store' = View(store, tx[p])
  /\ tx' = [tx EXCEPT ![p] = EmptyTx]
  /\ UNCHANGED <<request, ctx, pre, calls, dEmail, dList, dResult>>

\* signIn has returned or thrown: the call slot is free again
Return(p) ==
  /\ pc[p] \in {"done", "failed"}
  /\ pc' = [pc EXCEPT ![p] = "idle"]
  /\ request' = [request EXCEPT ![p] = NoRequest]
  /\ ctx' = [ctx EXCEPT ![p] = NoContext]
  /\ pre' = [pre EXCEPT ![p] = store]
  /\ out' = [out EXCEPT ![p] = NoOut]
  /\ UNCHANGED <<store, tx, calls, dEmail, dList, dResult>>

\* one call at a time
Next ==
  \/ SignInStart(1, Requests)
  \/ Provision(1)
  \/ Commit(1)
  \/ Return(1)

Spec == Init /\ [][Next]_vars

-----------------------------------------------------------------------------
(* Concurrent calls: two call slots, sign-ins from the common page and to  *)
(* the organization Acme, by either email.                                 *)

ConcurrentRequests ==
  {[r EXCEPT !.identity = identity] :
     r \in {[NoRequest EXCEPT !.ssoType = "google",
                              !.allowPersonalWorkspace = allowPersonalWorkspace] :
              allowPersonalWorkspace \in BOOLEAN}
           \cup {[NoRequest EXCEPT !.configId = ConfigId(1)],
                 [NoRequest EXCEPT !.ssoType = "google", !.organizationId = OrgId(1)]},
     identity \in {i \in Identities : i.userSSOId /\ i.email # <<>>}}

ConcurrentNext ==
  \E p \in Procs :
    \/ SignInStart(p, ConcurrentRequests)
    \/ Provision(p)
    \/ Commit(p)
    \/ Return(p)

ConcurrentSpec == Init /\ [][ConcurrentNext]_vars


-----------------------------------------------------------------------------
(* #isValidDomain on its own: one call, for any email and any allow-list   *)
(* of the bounded lengths.                                                 *)

DomainInit ==
  /\ dEmail \in StringsUpTo(MaxEmailLen)
  /\ dList \in StringsUpTo(MaxListLen)
  /\ dResult = "none"
  /\ store = [users |-> {}, organizations |-> {}, organizationUsers |-> {}]
  /\ pc = [p \in Procs |-> "idle"]
  /\ request = [p \in Procs |-> NoRequest]
  /\ ctx = [p \in Procs |-> NoContext]
  /\ pre = [p \in Procs |-> store]
  /\ tx = [p \in Procs |-> EmptyTx]
  /\ out = [p \in Procs |-> NoOut]
  /\ calls = 0

DomainCall ==
  /\ dResult = "none"
  /\ dResult' = IF IsValidDomain(dEmail, dList) THEN "valid" ELSE "invalid"
  /\ UNCHANGED <<dEmail, dList, store, pc, request, ctx, pre, tx, out, calls>>

DomainNext == DomainCall

DomainSpec == DomainInit /\ [][DomainNext]_vars
-----------------------------------------------------------------------------
(* Properties *)

\* the calls that have got past line 178
Started == {p \in Procs : pc[p] # "idle"}

\* the committed memberships of a (user, organization) pair
MembershipsOf(db, userId, organizationId) ==
  {m \in db.organizationUsers : m.userId = userId /\ m.organizationId = organizationId}

\* C1: whenever signIn returns a session for user u and organization o, the
\* committed store holds exactly one membership of (u, o) and it is active.
C1_SessionHasOneActiveMembership ==
  \A p \in Procs :
    pc[p] = "done" =>
      LET ms == MembershipsOf(store, out[p].payload.id, out[p].payload.organizationId)
      IN  Cardinality(ms) = 1 /\ \A m \in ms : m.status = "active"

\* a super admin got a session for a workspace they have no membership of
C1_Witness ==
  /\ pc[1] = "done" /\ ctx[1].mode = "common"
  /\ IsSuperAdmin(ctx[1].userDetails)
  /\ MembershipsOf(store, out[1].payload.id, out[1].payload.organizationId) = {}

C3_LicenseFailureRollsBack ==
  \A p \in Procs :
    (pc[p] = "failed" /\ out[p].error.kind = "LicenseError") => store = pre[p]

\* the licence check failed after the call had created a workspace, a user and
\* a membership
C3_Witness ==
  /\ pc[1] = "failed" /\ out[1].error.kind = "LicenseError"
  /\ ctx[1].mode = "common" /\ ctx[1].userDetails = NoUser

\* the call resolved its tenant and its provider gave an identity with both a
\* subject id and an email
IdentityObtained(p) == ctx[p].stage \in {"archived", "domain", "provision"}

\* C4: with the tenant resolved and a complete identity, a sign-in for the
\* email of an archived user fails NotAcceptable, issues no session and
\* changes no row, in every entry mode and for a super admin too.
C4_ArchivedUserRejected ==
  \A p \in Started :
    (/\ IdentityObtained(p)
     /\ FindByEmail(pre[p], request[p].identity.email).status = "archived") =>
      /\ pc[p] = "failed"
      /\ out[p].error.kind = "NotAcceptable"
      /\ out[p].payload = NoPayload
      /\ store = pre[p]

\* an archived super admin was refused on the common page
C4_Witness ==
  /\ pc[1] = "failed" /\ out[1].error.kind = "NotAcceptable"
  /\ ctx[1].mode = "common" /\ IsSuperAdmin(ctx[1].userDetails)

\* C5: a sign-in whose identity lacks the subject id or the email, or for
\* which no provider branch produced an identity, fails Unauthorized and
\* writes nothing.
C5_IncompleteIdentityUnauthorized ==
  \A p \in Started :
    ctx[p].stage = "identity" =>
      /\ pc[p] = "failed"
      /\ out[p].error.kind = "Unauthorized"
      /\ store = pre[p]

\* a call with no provider branch for its SSO type failed at the identity
\* check with a TypeError
C5_Witness ==
  /\ pc[1] = "failed" /\ ctx[1].stage = "identity"
  /\ request[1].ssoType \notin Providers
  /\ out[1].error.kind = "TypeError"

\* C6: a call ends with an error or with a signed session, never both: the
\* signer has run exactly for the calls that returned, and a call that failed
\* at any stage carries an error and no payload.
C6_ErrorOrSession ==
  \A p \in Procs :
    /\ pc[p] = "done" => (out[p].error = NoError /\ out[p].payload.auth_token)
    /\ pc[p] = "failed" => (out[p].error # NoError /\ out[p].payload = NoPayload)
    /\ pc[p] \notin {"done", "failed"} => out[p].payload = NoPayload

\* a direct login passed every check and failed at the licence validation
C6_Witness ==
  /\ pc[1] = "failed" /\ out[1].error.kind = "LicenseError"
  /\ ctx[1].mode = "explicit" /\ ctx[1].stage = "provision"

\* the call returned a session for a pair whose membership was active before
SessionOfActiveMember(p) ==
  /\ pc[p] = "done"
  /\ \E m \in MembershipsOf(pre[p], out[p].payload.id, out[p].payload.organizationId) :
       m.status = "active"

UserKeys(db) == {<<u.id, u.email>> : u \in db.users}
MembershipKeys(db) == {<<m.id, m.userId, m.organizationId>> : m \in db.organizationUsers}

\* the call is a direct login of an email to an organization the user of that
\* email was an active member of before
DirectLoginOfActiveMember(p) ==
  /\ ctx[p].stage = "provision" /\ ctx[p].mode \in {"explicit", "known"}
  /\ \E m \in MembershipsOf(pre[p], FindByEmail(pre[p], request[p].identity.email).id,
                             ctx[p].organization.id) : m.status = "active"

C8_DomainStep ==
  \A p \in Started :
    ctx[p].stage \in {"domain", "provision"} =>
      LET email == request[p].identity.email
          rejected == /\ ctx[p].stage = "domain"
                      /\ ctx[p].error = Error("Unauthorized", "Domain verification failed")
      IN  rejected <=> (/\ ~IsSuperAdmin(FindByEmail(pre[p], email))
                        /\ ~IsValidDomain(email, ctx[p].organization.domain))

\* a super admin whose email is outside the allow-list passed the step
C8_Witness ==
  /\ pc[1] # "idle" /\ ctx[1].stage = "provision"
  /\ IsSuperAdmin(ctx[1].userDetails)
  /\ ~IsValidDomain(request[1].identity.email, ctx[1].organization.domain)

\* the part of e after its last '@'; all of e when it holds no '@'
AfterLastAt(e) ==
  LET ats == {i \in 1..Len(e) : e[i] = "@"}
  IN  IF ats = {} THEN e
      ELSE SubSeq(e, (CHOOSE i \in ats : \A j \in ats : j <= i) + 1, Len(e))

\* s without the spaces at its ends
Stripped(s) ==
  LET inked == {i \in 1..Len(s) : s[i] # " "}
  IN  IF inked = {} THEN <<>>
      ELSE SubSeq(s, CHOOSE i \in inked : \A j \in inked : i <= j,
                     CHOOSE i \in inked : \A j \in inked : j <= i)

\* the entries of the allow-list L: its maximal comma-free pieces, stripped,
\* the empty ones left out
EntriesOf(L) ==
  LET pieces == {SubSeq(L, i, j) : i \in 1..(Len(L) + 1), j \in 0..Len(L)}
      whole(i, j) == /\ i <= j + 1
                     /\ \A k \in i..j : L[k] # ","
                     /\ (i = 1 \/ L[i - 1] = ",")
                     /\ (j = Len(L) \/ L[j + 1] = ",")
  IN  {Stripped(SubSeq(L, i, j)) :
         <<i, j>> \in {ij \in (1..(Len(L) + 1)) \X (0..Len(L)) : whole(ij[1], ij[2])}}
      \ {<<>>}

\* C9 as stated: for every email e and allow-list L, isValidDomain(e, "") is
\* true, and for a non-empty L isValidDomain(e, L) is true exactly when the
\* part of e after its last '@' is one of the entries of L.
C9_DomainPolicy ==
  dResult # "none" =>
    IF dList = <<>>
    THEN dResult = "valid"
    ELSE (dResult = "valid") <=> (AfterLastAt(dEmail) \in EntriesOf(dList))

\* C9 amended: isValidDomain of the empty email is false for every allow-list;
\* for a non-empty email e, isValidDomain(e, "") is true, and for a non-empty L
\* isValidDomain(e, L) is true exactly when the part of e after its last '@'
\* (all of e when it holds no '@') is one of the entries of L.
C9_DomainPolicyOfNonEmptyEmail ==
  dResult # "none" =>
    IF dEmail = <<>>
    THEN dResult = "invalid"
    ELSE IF dList = <<>>
    THEN dResult = "valid"
    ELSE (dResult = "valid") <=> (AfterLastAt(dEmail) \in EntriesOf(dList))

\* an email was found valid against an entry that had to be split off and
\* trimmed
C9_Witness ==
  /\ dResult = "valid"
  /\ \E i \in 1..Len(dEmail) : dEmail[i] = "@"
  /\ \E i \in 1..Len(dList) : dList[i] = ","
  /\ \E i \in 1..Len(dList) : dList[i] = " "

\* the entry mode the arguments ask for, in the order of priority
ModeOf(req) ==
  IF req.configId # NoId THEN "explicit"
  ELSE IF ~req.isSingleOrganization /\ req.ssoType # "" /\ req.organizationId # NoId
  THEN "known"
  ELSE IF ~req.isSingleOrganization /\ req.ssoType # "" THEN "common"
  ELSE "none"

\* the mode asked for has an organization and an SSO config in the store
Resolvable(db, req) ==
  CASE ModeOf(req) = "explicit" ->
         \E o \in db.organizations : \E c \in o.ssoConfigs : c.id = req.configId
    [] ModeOf(req) = "known" ->
         \E o \in db.organizations :
           o.id = req.organizationId /\ \E c \in o.ssoConfigs : c.sso = req.ssoType
    [] ModeOf(req) = "common" -> TRUE
    [] OTHER -> FALSE

\* C10: the entry mode is decided in strict priority (config id, then
\* organization id with SSO type, then SSO type alone, multi-workspace on for
\* the last two); a common-page call gets a synthesized organization and
\* config; and a call whose mode yields no organization or no config, or that
\* has no mode, fails Unauthorized before any identity exchange.
C10_TenantResolution ==
  \A p \in Started :
    /\ ctx[p].mode = ModeOf(request[p])
    /\ ctx[p].stage = "tenant" <=> ~Resolvable(pre[p], request[p])
    /\ ctx[p].stage = "tenant" =>
         /\ pc[p] = "failed"
         /\ out[p].error.kind = "Unauthorized"
         /\ ctx[p].sso = ""
    /\ (ctx[p].mode = "common" /\ ctx[p].stage # "tenant") =>
         /\ ctx[p].organization.id = NoId
         /\ ctx[p].sso = request[p].ssoType
    /\ (ctx[p].mode = "explicit" /\ ctx[p].stage # "tenant") =>
         \E c \in ctx[p].organization.ssoConfigs :
           c.id = request[p].configId /\ c.sso = ctx[p].sso

\* a call with a config id, an SSO type and an organization id took the
\* explicit-config mode, in single-workspace mode too
C10_Witness ==
  /\ pc[1] # "idle" /\ ctx[1].mode = "explicit" /\ ctx[1].stage = "provision"
  /\ request[1].ssoType # "" /\ request[1].organizationId # NoId
  /\ request[1].isSingleOrganization

\* the call came from the common page for an existing user with a pending
\* invitation whose membership of the default organization was invited
InvitationPending(p) ==
  /\ ctx[p].mode = "common"
  /\ ctx[p].userDetails # NoUser
  /\ ctx[p].userDetails.invitationToken
  /\ \E m \in MembershipsOf(pre[p], ctx[p].userDetails.id,
                            ctx[p].userDetails.defaultOrganizationId) :
       m.status = "invited"

\* C11: a successful common-page sign-in of an existing user with an invitation
\* token and an invited membership of the default organization leaves the
\* token cleared and that membership active, and returns a session for the
\* default organization.
C11_InvitationActivated ==
  \A p \in Procs :
    (pc[p] = "done" /\ InvitationPending(p)) =>
      /\ ~FindByEmail(store, request[p].identity.email).invitationToken
      /\ \A m \in MembershipsOf(store, ctx[p].userDetails.id,
                                ctx[p].userDetails.defaultOrganizationId) :
           m.status = "active"
      /\ out[p].payload.organizationId = ctx[p].userDetails.defaultOrganizationId

\* the invited user got a session for another workspace, the token cleared
\* and the membership of the default organization still invited
C11_Witness ==
  /\ pc[1] = "done" /\ InvitationPending(1)
  /\ ~IsSuperAdmin(ctx[1].userDetails)
  /\ ~FindByEmail(store, request[1].identity.email).invitationToken
  /\ out[1].payload.organizationId # ctx[1].userDetails.defaultOrganizationId
  /\ \E m \in MembershipsOf(store, ctx[1].userDetails.id,
                            ctx[1].userDetails.defaultOrganizationId) :
       m.status = "invited"

\* the call came from the common page with sign-up enabled, passed the
\* eligibility checks and found a system without users
Bootstrap(p) ==
  /\ ctx[p].stage = "provision" /\ ctx[p].mode = "common"
  /\ ctx[p].organization.enableSignUp
  /\ pre[p].users = {}

\* C12: on a system with zero users, a common-page sign-in with sign-up
\* enabled and a valid identity, whatever the personal-workspace setting,
\* creates exactly one User with groups {all_users, admin}, exactly one new
\* 'Untitled workspace' and one membership linking them, and returns a session
\* for that workspace; only the licence validation can make it fail.
C12_Bootstrap ==
  \A p \in Started :
    Bootstrap(p) =>
      /\ pc[p] = "failed" => out[p].error.kind = "LicenseError"
      /\ pc[p] = "done" =>
           \E u \in store.users : \E o \in store.organizations \ pre[p].organizations :
             /\ store.users = {u}
             /\ u.email = request[p].identity.email
             /\ u.groups = {"all_users", "admin"}
             /\ store.organizations = pre[p].organizations \cup {o}
             /\ o.name = "Untitled workspace"
             /\ Cardinality(store.organizationUsers) = 1
             /\ \A m \in store.organizationUsers :
                  m.userId = u.id /\ m.organizationId = o.id
             /\ out[p].payload.id = u.id
             /\ out[p].payload.organizationId = o.id

\* the first user signed in with the personal-workspace setting off
C12_Witness ==
  /\ pc[1] = "done" /\ Bootstrap(1)
  /\ ~request[1].allowPersonalWorkspace
  /\ Cardinality(store.users) = 1

\* the call is a direct login that passed the eligibility checks
DirectLoginCall(p) ==
  ctx[p].stage = "provision" /\ ctx[p].mode \in {"explicit", "known"}

\* the memberships, before the call, of the user of the call's email in the
\* organization the call resolved
OwnMemberships(p) ==
  MembershipsOf(pre[p], FindByEmail(pre[p], request[p].identity.email).id,
                ctx[p].organization.id)

\* C13: a direct login to an organization with sign-up disabled, for an email
\* with no active or invited membership there, fails Unauthorized and creates
\* nothing; with an invited membership the call activates it, with an active
\* one it changes nothing, and in both cases only the licence validation can
\* make it fail.
C13_SignUpDisabled ==
  \A p \in Started :
    (DirectLoginCall(p) /\ ~ctx[p].organization.enableSignUp) =>
      /\ OwnMemberships(p) = {} =>
           /\ pc[p] \in {"eligible", "failed"}
           /\ pc[p] = "failed" => out[p].error.kind = "Unauthorized"
           /\ store = pre[p]
      /\ (OwnMemberships(p) # {} /\ pc[p] = "failed") =>
           (out[p].error.kind = "LicenseError" /\ store = pre[p])
      /\ (OwnMemberships(p) # {} /\ pc[p] = "done") =>
           /\ store.users = pre[p].users
           /\ store.organizations = pre[p].organizations
           /\ store.organizationUsers =
                {IF m \in OwnMemberships(p) THEN [m EXCEPT !.status = "active"] ELSE m :
                   m \in pre[p].organizationUsers}

\* a user known to the system, but not in the organization, was refused
C13_Witness ==
  /\ pc[1] = "failed" /\ DirectLoginCall(1) /\ ~ctx[1].organization.enableSignUp
  /\ OwnMemberships(1) = {}
  /\ ctx[1].userDetails # NoUser
  /\ out[1].error = Error("Unauthorized", "User does not exist in the workspace")

\* the call is a direct login to an organization with sign-up allowed, for an
\* email with no membership there
JoiningCall(p) ==
  /\ DirectLoginCall(p) /\ ctx[p].organization.enableSignUp
  /\ OwnMemberships(p) = {}

\* C14: a successful direct login, sign-up allowed, of an email with no
\* membership of the target organization leaves exactly one membership of
\* (user, target organization), created by the call, whether the user existed
\* or not; a User is created only when none had that email, and nothing else
\* is written.  Only the licence validation can make the call fail.
C14_JoinByFindOrCreate ==
  \A p \in Started :
    JoiningCall(p) =>
      /\ pc[p] = "failed" => out[p].error.kind = "LicenseError"
      /\ pc[p] = "done" =>
           LET before == FindByEmail(pre[p], request[p].identity.email)
               user   == FindByEmail(store, request[p].identity.email)
               own    == MembershipsOf(store, user.id, ctx[p].organization.id)
           IN  /\ user # NoUser
               /\ Cardinality(own) = 1
               /\ store.organizationUsers = pre[p].organizationUsers \cup own
               /\ store.users = IF before = NoUser THEN pre[p].users \cup {user}
                                ELSE pre[p].users
               /\ store.organizations = pre[p].organizations
               /\ out[p].payload.id = user.id
               /\ out[p].payload.organizationId = ctx[p].organization.id

\* a member of another organization joined the target organization
C14_Witness ==
  /\ pc[1] = "done" /\ JoiningCall(1)
  /\ FindByEmail(pre[1], request[1].identity.email) # NoUser
  /\ store.users = pre[1].users
  /\ store.organizationUsers # pre[1].organizationUsers

\* the call came from the common page for a user that existed before it
CommonPageCallOfUser(p) ==
  ctx[p].stage = "provision" /\ ctx[p].mode = "common" /\ ctx[p].userDetails # NoUser

\* the ids of the candidates of a user that is not a super admin, in the order
\* of the list
CandidateIds(p) ==
  LET list == FindOrganizationWithLoginSupport(pre[p], ctx[p].userDetails)
  IN  [i \in 1..Len(list) |-> list[i].id]

\* the session is for a workspace the call created for the user
SessionInNewWorkspace(p) ==
  \E o \in store.organizations \ pre[p].organizations :
    /\ o.name = "Untitled workspace"
    /\ out[p].payload.organizationId = o.id
    /\ store.organizations = pre[p].organizations \cup {o}
    /\ MembershipsOf(store, ctx[p].userDetails.id, o.id) # {}

\* the choice for a user that is not a super admin: the default
\* organization when it is a candidate, else the first candidate, else a new
\* 'Untitled workspace' when personal workspaces are allowed, else Unauthorized
NonSuperAdminChoice(p) ==
  LET ids == CandidateIds(p)
      default == ctx[p].userDetails.defaultOrganizationId
      allowed == request[p].allowPersonalWorkspace
  IN  IF \E i \in 1..Len(ids) : ids[i] = default
      THEN /\ pc[p] = "done" => out[p].payload.organizationId = default
           /\ pc[p] = "failed" => out[p].error.kind = "LicenseError"
      ELSE IF Len(ids) > 0
      THEN /\ pc[p] = "done" => out[p].payload.organizationId = ids[1]
           /\ pc[p] = "failed" => out[p].error.kind = "LicenseError"
      ELSE IF allowed
      THEN /\ pc[p] = "done" => SessionInNewWorkspace(p)
           /\ pc[p] = "failed" => out[p].error.kind = "LicenseError"
      ELSE /\ pc[p] \in {"eligible", "failed"}
           /\ pc[p] = "failed" =>
                out[p].error = Error("Unauthorized", "User not included in any workspace")

\* the choice for a super admin: the default organization when it exists,
\* else one of the organizations of the system
SuperAdminChoice(p) ==
  LET default == ctx[p].userDetails.defaultOrganizationId
  IN  /\ pc[p] = "failed" => out[p].error.kind = "LicenseError"
      /\ pc[p] = "done" =>
           IF \E o \in pre[p].organizations : o.id = default
           THEN out[p].payload.organizationId = default
           ELSE \E o \in pre[p].organizations : out[p].payload.organizationId = o.id

\* C15: in a common-page sign-in of an existing user the session organization
\* is chosen in this order: the default organization if it is a candidate,
\* else the first candidate, else a new 'Untitled workspace' if personal
\* workspaces are allowed, else Unauthorized; the candidates of a super admin
\* are the default organization if it exists, else any one organization.
C15_OrganizationChoice ==
  \A p \in Started :
    CommonPageCallOfUser(p) =>
      IF IsSuperAdmin(ctx[p].userDetails) THEN SuperAdminChoice(p)
      ELSE NonSuperAdminChoice(p)

\* the default organization was chosen though it is not the first candidate
C15_Witness ==
  /\ pc[1] = "done" /\ CommonPageCallOfUser(1) /\ ~IsSuperAdmin(ctx[1].userDetails)
  /\ Len(CandidateIds(1)) = 2
  /\ CandidateIds(1)[1] # ctx[1].userDetails.defaultOrganizationId
  /\ out[1].payload.organizationId = ctx[1].userDetails.defaultOrganizationId

\* the provider of the call's SSO config answered with an identity
ProviderAnswered(p) ==
  /\ ctx[p].sso \in Providers
  /\ ctx[p].stage \in {"identity", "archived", "domain", "provision"}

\* the first of the eligibility checks the call's identity fails, in the order
\* completeness, archived, domain; "provision" when it passes them all
FirstFailure(p) ==
  LET identity == request[p].identity
      user == FindByEmail(pre[p], identity.email)
  IN  IF ~(identity.userSSOId /\ identity.email # <<>>) THEN "identity"
      ELSE IF user.status = "archived" THEN "archived"
      ELSE IF ~IsSuperAdmin(user)
                /\ ~IsValidDomain(identity.email, ctx[p].organization.domain)
      THEN "domain"
      ELSE "provision"

\* C16: after the identity exchange the checks run in the order identity
\* completeness, archived user, domain, first-name derivation, all before any
\* write: a call that fails several of them reports the first (an archived
\* user outside the allow-list gets NotAcceptable, an incomplete identity gets
\* Unauthorized also when its email is an archived user's), has derived no
\* first name and has written nothing.
C16_CheckOrder ==
  \A p \in Started :
    ProviderAnswered(p) =>
      /\ ctx[p].stage = FirstFailure(p)
      /\ ctx[p].stage = "identity" =>
           out[p].error = Error("Unauthorized", "Invalid credentials")
      /\ ctx[p].stage = "archived" => out[p].error.kind = "NotAcceptable"
      /\ ctx[p].stage = "domain" =>
           out[p].error = Error("Unauthorized", "Domain verification failed")
      /\ ctx[p].stage # "provision" =>
           /\ pc[p] = "failed"
           /\ ctx[p].firstName = <<>>
           /\ store = pre[p] /\ tx[p] = EmptyTx
      /\ ctx[p].stage = "provision" => ctx[p].firstName # <<>>

\* an archived user whose email is outside the allow-list got NotAcceptable
C16_Witness ==
  /\ pc[1] = "failed" /\ ProviderAnswered(1)
  /\ out[1].error.kind = "NotAcceptable"
  /\ ~IsSuperAdmin(ctx[1].userDetails)
  /\ ~IsValidDomain(request[1].identity.email, ctx[1].organization.domain)

\* e is empty, holds no '@', or has nothing after its last '@'
NoExtractableDomain(e) ==
  \/ e = <<>>
  \/ \A i \in 1..Len(e) : e[i] # "@"
  \/ e[Len(e)] = "@"

\* C17: isValidDomain(e, L) is false for every allow-list L, the empty one
\* too, when e is empty, contains no '@' or has nothing after its last '@'.
C17_NoDomainIsInvalid ==
  (dResult # "none" /\ NoExtractableDomain(dEmail)) => dResult = "invalid"

\* an email without '@' was found valid against a non-empty allow-list
C17_Witness ==
  /\ dResult = "valid"
  /\ dEmail # <<>> /\ \A i \in 1..Len(dEmail) : dEmail[i] # "@"
  /\ dList # <<>>

\* the call came from the common page, personal workspaces not allowed by the
\* instance setting, and found a system without users
BootstrapExemption(p) ==
  /\ ctx[p].stage = "provision" /\ ctx[p].mode = "common"
  /\ ~request[p].allowPersonalWorkspace
  /\ pre[p].users = {}

\* C18: with personal workspaces not allowed and no super admin, concurrent
\* common-page sign-ins of distinct new emails on an empty system never both
\* succeed: at most one of them commits a new User and its workspace.
C18_OneBootstrap ==
  \A p, q \in Procs :
    (/\ p # q
     /\ BootstrapExemption(p) /\ BootstrapExemption(q)
     /\ request[p].identity.email # request[q].identity.email
     /\ pc[p] = "done") => pc[q] # "done"

\* two calls that both found no user each committed a user and a workspace
C18_Witness ==
  /\ pc[1] = "done" /\ pc[2] = "done"
  /\ BootstrapExemption(1) /\ BootstrapExemption(2)
  /\ Cardinality(store.users) = 2
  /\ \A u \in store.users : u.groups = {"all_users", "admin"}

\* C19: every session issued to a user that is not a super admin is for an
\* organization whose own domain allow-list admits the user's email, in the
\* three entry modes.
C19_SessionDomainAdmitsEmail ==
  \A p \in Procs :
    (pc[p] = "done" /\ ~IsSuperAdmin(out[p].userDetails)) =>
      IsValidDomain(out[p].payload.email, out[p].organizationDetails.domain)

\* a common-page call gave a member a session for an organization whose
\* allow-list does not admit the member's email
C19_Witness ==
  /\ pc[1] = "done" /\ ctx[1].mode = "common"
  /\ ~IsSuperAdmin(out[1].userDetails)
  /\ out[1].organizationDetails.id = out[1].payload.organizationId
  /\ out[1].organizationDetails \in pre[1].organizations
  /\ ~IsValidDomain(request[1].identity.email, out[1].organizationDetails.domain)


\* C20: no identity exchange, provisioning write or session rests on an SSO
\* config whose enabled flag is false; a common-page call made when the
\* instance has no client id for the provider fails Unauthorized.
C20_DisabledConfigIsRefused ==
  \A p \in Started :
    /\ (ProviderAnswered(p) \/ pc[p] \in {"provisioned", "done"}) => ctx[p].enabled
    /\ (ModeOf(request[p]) = "common" /\ ~request[p].clientId) =>
         /\ pc[p] = "failed"
         /\ ctx[p].error.kind = "Unauthorized"
         /\ ctx[p].stage = "tenant"

\* a common-page call made with no client id for the provider, whose
\* synthesized config is therefore not enabled, returned a session
C20_Witness ==
  /\ pc[1] = "done"
  /\ ModeOf(request[1]) = "common" /\ ~request[1].clientId
  /\ ~GetSSOConfigs(request[1]).enabled
  /\ ~ctx[1].enabled
  /\ out[1].error = NoError
=============================================================================
